---- MODULE Spec2Model ----
(***************************************************************************)
(* Model of homework.py: the fitness-tracker module (InfoMessage, the      *)
(* Training class family, read_package, main and the script run under      *)
(* __main__).                                                              *)
(*                                                                         *)
(* Numbers.  Python's int and float values are modelled as exact rational  *)
(* numbers: the model abstracts from the rounding of binary floating       *)
(* point, from overflow and underflow, and from the sign of a zero (the    *)
(* source prints -0.000 for a negative zero).  A number is a record        *)
(* [w, n, d] standing for w + n/d with w an integer, 0 <= n < d and        *)
(* gcd(n, d) = 1 (n = 0 implies d = 1).  The input values of the library   *)
(* calls are integers chosen so that every intermediate value of the       *)
(* three calorie formulas stays inside the model checker's integer range.  *)
(*                                                                         *)
(* Strings.  The literal text of InfoMessage.MESSAGE is Cyrillic; the      *)
(* string literals here are its ASCII transliteration, placeholder for     *)
(* placeholder.                                                            *)
(***************************************************************************)
EXTENDS Integers, Sequences, FiniteSets, TLC

VARIABLES
    mode,          \* "main": run as a script; "import": used as a library
    pc,            \* the position in the script or in main, or the call made last
    i,             \* index of the package the script's loop is at
    workout_type,  \* first argument of the last read_package call
    data,          \* second argument of the last read_package call
    training,      \* the Training object in hand, or None
    info,          \* the InfoMessage show_training_info returned last
    main_info,     \* the local variable info of main
    returned,      \* the number a get_* method returned last
    message,       \* the string get_message returned last
    calls,         \* method calls made on the object in hand
    stdout,        \* the lines printed so far
    raised         \* the exception that ended the run, or None

vars == <<mode, pc, i, workout_type, data, training, info, main_info,
          returned, message, calls, stdout, raised>>

-----------------------------------------------------------------------------
(* Exact rational arithmetic standing for Python's numeric operators.      *)

Abs(k) == IF k < 0 THEN -k ELSE k

RECURSIVE Gcd(_, _)
Gcd(a, b) == IF b = 0 THEN a ELSE Gcd(b, a % b)

(* w + n/d for any integer n and d > 0, brought to the normal form. *)
Norm(w, n, d) ==
    LET r == n % d
        g == Gcd(d, r)
    IN  [w |-> w + (n \div d), n |-> r \div g, d |-> d \div g]

Num(k) == [w |-> k, n |-> 0, d |-> 1]

(* p/q for integers p and q # 0. *)
Frac(p, q) == IF q < 0 THEN Norm(0, -p, -q) ELSE Norm(0, p, q)

IsZero(x) == x.w = 0 /\ x.n = 0

IsNeg(x) == x.w < 0

(* Python's binary + *)
RAdd(x, y) ==
    LET g == Gcd(x.d, y.d)
    IN  Norm(x.w + y.w, x.n * (y.d \div g) + y.n * (x.d \div g),
             (x.d \div g) * y.d)

(* integer k times the fraction p/q, cancelling before multiplying *)
IntTimesFrac(k, p, q) ==
    LET g == Gcd(q, Abs(k))
    IN  Norm(0, (k \div g) * p, q \div g)

(* the product of two proper fractions p/q and r/s, cancelling crosswise *)
FracTimesFrac(p, q, r, s) ==
    LET g1 == Gcd(s, p)
        g2 == Gcd(q, r)
    IN  Norm(0, (p \div g1) * (r \div g2), (q \div g2) * (s \div g1))

(* Python's binary * *)
RMul(x, y) ==
    RAdd(RAdd(Num(x.w * y.w), IntTimesFrac(x.w, y.n, y.d)),
         RAdd(IntTimesFrac(y.w, x.n, x.d), FracTimesFrac(x.n, x.d, y.n, y.d)))

(* 1/y for y # 0 *)
Recip(y) == Frac(y.d, y.w * y.d + y.n)

(* Python's binary / on a non-zero divisor (a zero divisor raises
   ZeroDivisionError, which the callers model) *)
RDiv(x, y) == RMul(x, Recip(y))

(* Python's ** 2 *)
RSquare(x) == RMul(x, x)

(* unary minus *)
RNeg(x) == Norm(-x.w, -x.n, x.d)

RAbs(x) == IF IsNeg(x) THEN RNeg(x) ELSE x

RECURSIVE Pow10(_)
Pow10(k) == IF k = 0 THEN 1 ELSE 10 * Pow10(k - 1)

-----------------------------------------------------------------------------
(* Values: None, exceptions, and the outcome of a call (a returned value   *)
(* or a raised exception).                                                 *)

None == [cls |-> "NoneType"]

Return(v) == [ok |-> TRUE, val |-> v]

Raise(e) == [ok |-> FALSE, exc |-> e]

ZeroDivisionError == [exc |-> "ZeroDivisionError", arg |-> ""]

TypeError(name) == [exc |-> "TypeError", arg |-> name]

(* ValueError, raised by read_package with the offending code in its text *)
ValueError(wt) == [exc |-> "ValueError", arg |-> wt]

(* NotImplementedError, raised by Training.get_spent_calories with the     *)
(* name of the object's class in its text                                  *)
NotImplementedError(name) == [exc |-> "NotImplementedError", arg |-> name]

-----------------------------------------------------------------------------
(* class InfoMessage                                                       *)

(* the precision of every numeric placeholder of MESSAGE: {...:.3f} *)
PRECISION == 3

(* The conversion {x:.Pf}: the magnitude of x scaled by 10^P and rounded   *)
(* to the nearest integer, ties to even; then the sign, the integer        *)
(* digits and exactly P fraction digits.                                   *)
AsFixed(x, prec) ==
    LET s == RMul(RAbs(x), Num(Pow10(prec)))
        q == IF 2 * s.n > s.d \/ (2 * s.n = s.d /\ s.w % 2 = 1)
             THEN s.w + 1 ELSE s.w
    IN  [neg   |-> IsNeg(x),
         whole |-> q \div Pow10(prec),
         frac  |-> [k \in 1..prec |-> (q \div Pow10(prec - k)) % 10]]

(* mutant of FormatFixed: a placeholder written with .2f *)
FormatFixedTwo(x) == AsFixed(x, 2)

FormatFixed(x) == AsFixed(x, PRECISION)

RECURSIVE DigitString(_)
DigitString(ds) ==
    IF ds = <<>> THEN "" ELSE ToString(Head(ds)) \o DigitString(Tail(ds))

(* the text of a converted number, as str.format writes it *)
FixedText(f) ==
    (IF f.neg THEN "-" ELSE "") \o ToString(f.whole) \o "."
        \o DigitString(f.frac)

(* MESSAGE, lines 13-19: the literal pieces around the five placeholders *)
MESSAGE ==
    << "Tip trenirovki: ", "; Dlitel'nost': ", " ch.; Distantsiya: ",
       " km; Sr. skorost': ", " km/ch; Potracheno kkal: ", "." >>

InfoMessage(training_type, duration, distance, speed, calories) ==
    [cls |-> "InfoMessage", training_type |-> training_type,
     duration |-> duration, distance |-> distance, speed |-> speed,
     calories |-> calories]

(* InfoMessage.get_message: MESSAGE formatted with the fields of self *)
get_message(self) ==
    MESSAGE[1] \o self.training_type
    \o MESSAGE[2] \o FixedText(FormatFixed(self.duration))
    \o MESSAGE[3] \o FixedText(FormatFixed(self.distance))
    \o MESSAGE[4] \o FixedText(FormatFixed(self.speed))
    \o MESSAGE[5] \o FixedText(FormatFixed(self.calories))
    \o MESSAGE[6]

-----------------------------------------------------------------------------
(* class Training and its subclasses                                       *)

M_IN_KM == 1000
MINUTES_IN_HOUR == 60

(* mutant of LEN_STEP: Swimming does not override the step length *)
LEN_STEP_not_overridden(cls) == Frac(65, 100)

(* LEN_STEP: 0.65 in Training, overridden to 1.38 in Swimming *)
LEN_STEP(cls) == IF cls = "Swimming" THEN Frac(138, 100) ELSE Frac(65, 100)

(* Running *)
CALORIES_MEAN_SPEED_MULTIPLIER == Num(18)
CALORIES_MEAN_SPEED_SHIFT == Frac(179, 100)

(* SportsWalking *)
WLK_COEFF_CALORIES_WEIGHT == Frac(35, 1000)
WLK_COEFF_CALORIES_MEAN_SPEED == Frac(29, 1000)
SPEED_IN_MS == Frac(278, 1000)
HEIGHT_IN_M == 100

(* Swimming *)
SWM_COEFF_CALORIES_MEAN_SPEED == Frac(11, 10)
SWM_COEFF_CALORIES_WEIGHT == Num(2)

(* Training.__init__ *)
TrainingInit(cls, action, duration, weight) ==
    [cls |-> cls, action |-> action, duration |-> duration, weight |-> weight]

(* SportsWalking.__init__ *)
SportsWalkingInit(action, duration, weight, height) ==
    [cls |-> "SportsWalking", action |-> action, duration |-> duration,
     weight |-> weight, height |-> height]

(* mutant of SwimmingInit: the two pool arguments are stored swapped *)
SwimmingInitSwapped(action, duration, weight, length_pool, count_pool) ==
    [cls |-> "Swimming", action |-> action, duration |-> duration,
     weight |-> weight, length_pool |-> count_pool,
     count_pool |-> length_pool]

(* Swimming.__init__ *)
SwimmingInit(action, duration, weight, length_pool, count_pool) ==
    [cls |-> "Swimming", action |-> action, duration |-> duration,
     weight |-> weight, length_pool |-> length_pool,
     count_pool |-> count_pool]

(* Training.get_distance, inherited by every subclass *)
get_distance(self) ==
    RDiv(RMul(self.action, LEN_STEP(self.cls)), Num(M_IN_KM))

(* mutant of Training_get_mean_speed: a zero duration yields speed 0 *)
Training_get_mean_speed_guarded(self) ==
    IF IsZero(self.duration) THEN Return(Num(0))
    ELSE Return(RDiv(get_distance(self), self.duration))

(* Training.get_mean_speed *)
Training_get_mean_speed(self) ==
    IF IsZero(self.duration) THEN Raise(ZeroDivisionError)
    ELSE Return(RDiv(get_distance(self), self.duration))

(* mutant of Swimming_get_mean_speed: the inherited formula is used *)
Swimming_get_mean_speed_inherited(self) ==
    IF IsZero(self.duration) THEN Raise(ZeroDivisionError)
    ELSE Return(RDiv(get_distance(self), self.duration))

(* Swimming.get_mean_speed *)
Swimming_get_mean_speed(self) ==
    IF IsZero(self.duration) THEN Raise(ZeroDivisionError)
    ELSE Return(RDiv(RDiv(RMul(self.length_pool, self.count_pool),
                          Num(M_IN_KM)), self.duration))

(* method resolution of get_mean_speed *)
get_mean_speed(self) ==
    IF self.cls = "Swimming" THEN Swimming_get_mean_speed(self)
    ELSE Training_get_mean_speed(self)

(* mutant of Training_get_spent_calories: a stub that returns 0 *)
Training_get_spent_calories_stub(self) == Return(Num(0))

(* Training.get_spent_calories *)
Training_get_spent_calories(self) ==
    Raise(NotImplementedError(self.cls))

(* mutant of Running_get_spent_calories: the shift is subtracted *)
Running_get_spent_calories_minus(self) ==
    LET speed == get_mean_speed(self)
    IN  IF ~speed.ok THEN speed
        ELSE Return(
            RMul(RMul(RDiv(RMul(RAdd(RMul(CALORIES_MEAN_SPEED_MULTIPLIER,
                                          speed.val),
                                     RNeg(CALORIES_MEAN_SPEED_SHIFT)),
                                self.weight),
                           Num(M_IN_KM)),
                      self.duration),
                 Num(MINUTES_IN_HOUR)))

(* Running.get_spent_calories *)
Running_get_spent_calories(self) ==
    LET speed == get_mean_speed(self)
    IN  IF ~speed.ok THEN speed
        ELSE Return(
            RMul(RMul(RDiv(RMul(RAdd(RMul(CALORIES_MEAN_SPEED_MULTIPLIER,
                                          speed.val),
                                     CALORIES_MEAN_SPEED_SHIFT),
                                self.weight),
                           Num(M_IN_KM)),
                      self.duration),
                 Num(MINUTES_IN_HOUR)))

(* SportsWalking.get_spent_calories.  The source multiplies the quotient   *)
(* speed^2 / height_m by 0.029 and then by weight; the product is          *)
(* associated here as quotient * (0.029 * weight), the same rational.      *)
SportsWalking_get_spent_calories(self) ==
    LET speed == get_mean_speed(self)
        height_m == RDiv(self.height, Num(HEIGHT_IN_M))
    IN  IF ~speed.ok THEN speed
        ELSE IF IsZero(height_m) THEN Raise(ZeroDivisionError)
        ELSE Return(
            RMul(RMul(RAdd(RMul(WLK_COEFF_CALORIES_WEIGHT, self.weight),
                           RMul(RDiv(RSquare(RMul(speed.val, SPEED_IN_MS)),
                                     height_m),
                                RMul(WLK_COEFF_CALORIES_MEAN_SPEED,
                                     self.weight))),
                      self.duration),
                 Num(MINUTES_IN_HOUR)))

(* Swimming.get_spent_calories *)
Swimming_get_spent_calories(self) ==
    LET speed == get_mean_speed(self)
    IN  IF ~speed.ok THEN speed
        ELSE Return(
            RMul(RMul(RMul(RAdd(speed.val, SWM_COEFF_CALORIES_MEAN_SPEED),
                           SWM_COEFF_CALORIES_WEIGHT),
                      self.weight),
                 self.duration))

(* method resolution of get_spent_calories *)
get_spent_calories(self) ==
    CASE self.cls = "Running"       -> Running_get_spent_calories(self)
      [] self.cls = "SportsWalking" -> SportsWalking_get_spent_calories(self)
      [] self.cls = "Swimming"      -> Swimming_get_spent_calories(self)
      [] OTHER                      -> Training_get_spent_calories(self)

(* mutant of show_training_info: the type name is taken from the base      *)
(* class instead of the object's class                                     *)
show_training_info_base_name(self) ==
    LET speed    == get_mean_speed(self)
        calories == get_spent_calories(self)
    IN  IF ~speed.ok THEN speed
        ELSE IF ~calories.ok THEN calories
        ELSE Return(InfoMessage("Training", self.duration,
                                get_distance(self), speed.val, calories.val))

(* Training.show_training_info: the constructor's arguments are evaluated  *)
(* left to right and the first exception raised propagates.                *)
show_training_info(self) ==
    LET speed    == get_mean_speed(self)
        calories == get_spent_calories(self)
    IN  IF ~speed.ok THEN speed
        ELSE IF ~calories.ok THEN calories
        ELSE Return(InfoMessage(self.cls, self.duration, get_distance(self),
                                speed.val, calories.val))

-----------------------------------------------------------------------------
(* read_package and main                                                   *)

(* the dict `workout` of read_package *)
workout == [RUN |-> "Running", WLK |-> "SportsWalking", SWM |-> "Swimming"]

(* The call of the class on the unpacked data binds data positionally to   *)
(* parameters of the class's __init__ and raises TypeError on any other    *)
(* number of arguments.                                                    *)
Construct(cls, args) ==
    CASE cls = "SportsWalking" ->
            IF Len(args) # 4 THEN Raise(TypeError(cls))
            ELSE Return(SportsWalkingInit(args[1], args[2], args[3], args[4]))
      [] cls = "Swimming" ->
            IF Len(args) # 5 THEN Raise(TypeError(cls))
            ELSE Return(SwimmingInit(args[1], args[2], args[3], args[4],
                                     args[5]))
      [] OTHER ->
            IF Len(args) # 3 THEN Raise(TypeError(cls))
            ELSE Return(TrainingInit(cls, args[1], args[2], args[3]))

(* mutant of read_package: an unknown code falls back to the base class *)
read_package_default(wt, args) ==
    Construct(IF wt \in DOMAIN workout THEN workout[wt] ELSE "Training", args)

read_package(wt, args) ==
    IF wt \notin DOMAIN workout
    THEN Raise(ValueError(wt))
    ELSE Construct(workout[wt], args)

(* the list `packages` of the script *)
packages ==
    << [workout_type |-> "SWM",
        data |-> <<Num(720), Num(1), Num(80), Num(25), Num(40)>>],
       [workout_type |-> "RUN",
        data |-> <<Num(15000), Num(1), Num(75)>>],
       [workout_type |-> "WLK",
        data |-> <<Num(9000), Num(1), Num(75), Num(180)>>] >>

-----------------------------------------------------------------------------
(* Bounds and input domains of the library calls                           *)

MaxCalls == 2     \* method calls made on one object
MaxArgs == 5      \* longest argument list handed to read_package

WorkoutTypes == {"RUN", "WLK", "SWM", "XYZ", ""}

(* the values an argument list may hold at position k *)
ArgValues(k) ==
    CASE k = 1 -> {Num(-15000), Num(10000), Num(15000)}
      [] k = 2 -> {Num(-1), Num(0), Num(1), Num(2)}
      [] k = 3 -> {Num(-75), Num(75), Num(80)}
      [] k = 4 -> {Num(-180), Num(0), Num(25), Num(180)}
      [] OTHER -> {Num(-40), Num(40)}

RECURSIVE ListsOfLen(_)
ListsOfLen(k) ==
    IF k = 0 THEN {<<>>}
    ELSE {Append(l, v) : l \in ListsOfLen(k - 1), v \in ArgValues(k)}

DataLists == UNION {ListsOfLen(k) : k \in 0..MaxArgs}

-----------------------------------------------------------------------------
(* The state machine                                                       *)
(*                                                                         *)
(* mode = "main": the module runs as a script; pc is "loop" at the for     *)
(* statement, "read_package" at its first line, "exit" after it.           *)
(* mode = "import": the functions and methods are called from outside, an  *)
(* object is made once and called at most MaxCalls times; pc names the     *)
(* call made last ("start" before any).                                    *)
(* In both modes pc is "main.show", "main.format" and "main.print" inside  *)
(* main.  An exception ends the run: no action is enabled once raised is   *)
(* set.                                                                    *)

Init ==
    /\ mode \in {"main", "import"}
    /\ pc = IF mode = "main" THEN "loop" ELSE "start"
    /\ i = 1
    /\ workout_type = ""
    /\ data = <<>>
    /\ training = None
    /\ info = None
    /\ main_info = None
    /\ returned = None
    /\ message = ""
    /\ calls = 0
    /\ stdout = <<>>
    /\ raised = None

NoException == raised = None

(* ---- the script: for workout_type, data in packages ---- *)

(* the for statement takes the next package *)
LoopNext ==
    /\ NoException /\ mode = "main" /\ pc = "loop" /\ i <= Len(packages)
    /\ workout_type' = packages[i].workout_type
    /\ data' = packages[i].data
    /\ pc' = "read_package"
    /\ UNCHANGED <<mode, i, training, info, main_info, returned, message,
                   calls, stdout, raised>>

(* the for statement finds the list exhausted *)
LoopEnd ==
    /\ NoException /\ mode = "main" /\ pc = "loop" /\ i > Len(packages)
    /\ pc' = "exit"
    /\ UNCHANGED <<mode, i, workout_type, data, training, info, main_info,
                   returned, message, calls, stdout, raised>>

(* training = read_package(workout_type, data); main(training) is entered *)
LoopReadPackage ==
    /\ NoException /\ mode = "main" /\ pc = "read_package"
    /\ LET r == read_package(workout_type, data)
       IN  IF r.ok
           THEN training' = r.val /\ pc' = "main.show" /\ raised' = raised
           ELSE training' = training /\ pc' = pc /\ raised' = r.exc
    /\ UNCHANGED <<mode, i, workout_type, data, info, main_info, returned,
                   message, calls, stdout>>

(* ---- main(training), the same in both modes ---- *)

(* info = training.show_training_info() *)
MainShowTrainingInfo ==
    /\ NoException /\ pc = "main.show"
    /\ LET r == show_training_info(training)
       IN  IF r.ok
           THEN main_info' = r.val /\ pc' = "main.format" /\ raised' = raised
           ELSE main_info' = main_info /\ pc' = pc /\ raised' = r.exc
    /\ UNCHANGED <<mode, i, workout_type, data, training, info, returned,
                   message, calls, stdout>>

(* the argument of print: info.get_message() *)
MainGetMessage ==
    /\ NoException /\ pc = "main.format"
    /\ message' = get_message(main_info)
    /\ pc' = "main.print"
    /\ UNCHANGED <<mode, i, workout_type, data, training, info, main_info,
                   returned, calls, stdout, raised>>

(* print(...) writes the line; main returns, to the for statement of the   *)
(* script or to the caller                                                 *)
MainPrint ==
    /\ NoException /\ pc = "main.print"
    /\ stdout' = Append(stdout, message)
    /\ IF mode = "main" THEN i' = i + 1 /\ pc' = "loop"
       ELSE i' = i /\ pc' = "main"
    /\ UNCHANGED <<mode, workout_type, data, training, info, main_info,
                   returned, message, calls, raised>>

(* ---- the module used as a library ---- *)

InMain == pc \in {"main.show", "main.format", "main.print"}

(* read_package(wt, args) *)
CallReadPackage ==
    /\ NoException /\ mode = "import" /\ pc = "start"
    /\ \E wt \in WorkoutTypes, args \in DataLists :
          /\ workout_type' = wt
          /\ data' = args
          /\ LET r == read_package(wt, args)
             IN  IF r.ok THEN training' = r.val /\ raised' = raised
                 ELSE training' = training /\ raised' = r.exc
    /\ pc' = "read_package"
    /\ UNCHANGED <<mode, i, info, main_info, returned, message, calls,
                   stdout>>

(* Training(action, duration, weight): the base class, constructed directly *)
CallTraining ==
    /\ NoException /\ mode = "import" /\ pc = "start"
    /\ \E args \in ListsOfLen(3) :
          training' = TrainingInit("Training", args[1], args[2], args[3])
    /\ pc' = "Training"
    /\ UNCHANGED <<mode, i, workout_type, data, info, main_info, returned,
                   message, calls, stdout, raised>>

HasObject ==
    /\ NoException /\ mode = "import" /\ ~InMain
    /\ training # None /\ calls < MaxCalls

(* training.get_distance() *)
CallGetDistance ==
    /\ HasObject
    /\ returned' = get_distance(training)
    /\ pc' = "get_distance"
    /\ calls' = calls + 1
    /\ UNCHANGED <<mode, i, workout_type, data, training, info, main_info,
                   message, stdout, raised>>

(* training.get_mean_speed() *)
CallGetMeanSpeed ==
    /\ HasObject
    /\ LET r == get_mean_speed(training)
       IN  IF r.ok THEN returned' = r.val /\ raised' = raised
           ELSE returned' = returned /\ raised' = r.exc
    /\ pc' = "get_mean_speed"
    /\ calls' = calls + 1
    /\ UNCHANGED <<mode, i, workout_type, data, training, info, main_info,
                   message, stdout>>

(* training.get_spent_calories() *)
CallGetSpentCalories ==
    /\ HasObject
    /\ LET r == get_spent_calories(training)
       IN  IF r.ok THEN returned' = r.val /\ raised' = raised
           ELSE returned' = returned /\ raised' = r.exc
    /\ pc' = "get_spent_calories"
    /\ calls' = calls + 1
    /\ UNCHANGED <<mode, i, workout_type, data, training, info, main_info,
                   message, stdout>>

(* mutant of CallShowTrainingInfo: the call resets the object's counter *)
CallShowTrainingInfoResetting ==
    /\ HasObject
    /\ LET r == show_training_info(training)
       IN  IF r.ok THEN info' = r.val /\ raised' = raised
           ELSE info' = info /\ raised' = r.exc
    /\ training' = [training EXCEPT !.action = Num(0)]
    /\ pc' = "show_training_info"
    /\ calls' = calls + 1
    /\ UNCHANGED <<mode, i, workout_type, data, main_info, returned, message,
                   stdout>>

(* info = training.show_training_info() *)
CallShowTrainingInfo ==
    /\ HasObject
    /\ LET r == show_training_info(training)
       IN  IF r.ok THEN info' = r.val /\ raised' = raised
           ELSE info' = info /\ raised' = r.exc
    /\ pc' = "show_training_info"
    /\ calls' = calls + 1
    /\ UNCHANGED <<mode, i, workout_type, data, training, main_info,
                   returned, message, stdout>>

(* info.get_message() *)
CallGetMessage ==
    /\ HasObject /\ info # None
    /\ message' = get_message(info)
    /\ pc' = "get_message"
    /\ calls' = calls + 1
    /\ UNCHANGED <<mode, i, workout_type, data, training, info, main_info,
                   returned, stdout, raised>>

(* main(training) is called *)
CallMain ==
    /\ HasObject
    /\ pc' = "main.show"
    /\ calls' = calls + 1
    /\ UNCHANGED <<mode, i, workout_type, data, training, info, main_info,
                   returned, message, stdout, raised>>

Next ==
    \/ LoopNext
    \/ LoopEnd
    \/ LoopReadPackage
    \/ MainShowTrainingInfo
    \/ MainGetMessage
    \/ MainPrint
    \/ CallReadPackage
    \/ CallTraining
    \/ CallGetDistance
    \/ CallGetMeanSpeed
    \/ CallGetSpentCalories
    \/ CallShowTrainingInfo
    \/ CallGetMessage
    \/ CallMain

Spec == Init /\ [][Next]_vars

-----------------------------------------------------------------------------
(* Properties                                                              *)

Supported == {"RUN", "WLK", "SWM"}

(* read_package has been called from outside and has returned or raised *)
AfterReadPackage == mode = "import" /\ pc = "read_package"

(* an object made by read_package from a supported code is in hand *)
FromPackage ==
    mode = "import" /\ workout_type \in Supported /\ training # None

(* C1: read_package called with a code other than RUN, WLK, SWM raises     *)
(* ValueError naming that code, whatever the argument list, and no         *)
(* object is made.                                                         *)
C1_UnsupportedTypeRaises ==
    (AfterReadPackage /\ workout_type \notin Supported)
        => /\ raised = ValueError(workout_type)
           /\ training = None

C1_Witness ==
    /\ AfterReadPackage
    /\ workout_type = "XYZ"
    /\ data = <<>>
    /\ raised = ValueError("XYZ")

(* C2: read_package called with RUN, WLK or SWM and a list of the class's  *)
(* arity returns an object of the mapped class (Running, SportsWalking,    *)
(* Swimming) whose fields are the list's elements in declaration order.    *)
C2_PositionalConstruction ==
    (AfterReadPackage /\ workout_type \in Supported)
        => /\ (workout_type = "RUN" /\ Len(data) = 3)
                => /\ raised = None
                   /\ training = [cls |-> "Running", action |-> data[1],
                                  duration |-> data[2], weight |-> data[3]]
           /\ (workout_type = "WLK" /\ Len(data) = 4)
                => /\ raised = None
                   /\ training = [cls |-> "SportsWalking",
                                  action |-> data[1], duration |-> data[2],
                                  weight |-> data[3], height |-> data[4]]
           /\ (workout_type = "SWM" /\ Len(data) = 5)
                => /\ raised = None
                   /\ training = [cls |-> "Swimming", action |-> data[1],
                                  duration |-> data[2], weight |-> data[3],
                                  length_pool |-> data[4],
                                  count_pool |-> data[5]]

C2_Witness ==
    /\ AfterReadPackage
    /\ workout_type = "SWM"
    /\ Len(data) = 5
    /\ training.cls = "Swimming"
    /\ training.length_pool = Num(25)
    /\ training.count_pool = Num(40)

(* C3: a call of show_training_info that returns leaves the object's       *)
(* fields as they were, and when the call before it on the same object     *)
(* was show_training_info too, the InfoMessage returned equals the one     *)
(* returned before.                                                        *)
C3_ShowTrainingInfoIdempotent ==
    [][(pc' = "show_training_info" /\ raised' = None)
          => /\ training' = training
             /\ info' # None
             /\ (pc = "show_training_info" => info' = info)]_vars

(* show_training_info was called twice and nothing else: no number was     *)
(* returned, no message made, no line printed                              *)
C3_Witness ==
    /\ mode = "import"
    /\ pc = "show_training_info"
    /\ calls = 2
    /\ training.cls = "SportsWalking"
    /\ info # None
    /\ returned = None /\ message = "" /\ stdout = <<>>

(* the type name the class of each code gives *)
ClassNameOf(wt) ==
    CASE wt = "RUN" -> "Running"
      [] wt = "WLK" -> "SportsWalking"
      [] wt = "SWM" -> "Swimming"

(* the display names the claim C4 states *)
DisplayNameOf(wt) ==
    CASE wt = "RUN" -> "Running"
      [] wt = "WLK" -> "Walking"
      [] wt = "SWM" -> "Swimming"

(* the text of the message of InfoMessage m with the type name written t *)
MessageWithType(t, m) ==
    "Tip trenirovki: " \o t
    \o "; Dlitel'nost': " \o FixedText(FormatFixed(m.duration))
    \o " ch.; Distantsiya: " \o FixedText(FormatFixed(m.distance))
    \o " km; Sr. skorost': " \o FixedText(FormatFixed(m.speed))
    \o " km/ch; Potracheno kkal: " \o FixedText(FormatFixed(m.calories))
    \o "."

(* C4 as stated: the InfoMessage of an object made from RUN, WLK, SWM has  *)
(* the type name Running, Walking, Swimming, and get_message writes it.    *)
C4_DisplayNameAsStated ==
    FromPackage
        => /\ info # None
                => info.training_type = DisplayNameOf(workout_type)
           /\ (pc = "get_message")
                => message
                     = MessageWithType(DisplayNameOf(workout_type), info)

(* C4, amended: the InfoMessage of an object made from RUN, WLK, SWM has   *)
(* the type name Running, SportsWalking, Swimming (the class's name), and  *)
(* get_message writes that name unchanged after the first literal.         *)
C4_TypeNameIsClassName ==
    FromPackage
        => /\ info # None
                => info.training_type = ClassNameOf(workout_type)
           /\ (pc = "get_message")
                => message = MessageWithType(ClassNameOf(workout_type), info)

C4_Witness ==
    /\ FromPackage
    /\ workout_type = "WLK"
    /\ pc = "get_message"
    /\ info.training_type = "SportsWalking"
    /\ message = MessageWithType("SportsWalking", info)

(* C5: on an object of the base class Training, get_spent_calories raises  *)
(* NotImplementedError naming the class; show_training_info and main       *)
(* therefore never return an InfoMessage or print a line: the exception    *)
(* they raise is that NotImplementedError, reached after the distance and  *)
(* the mean speed were computed (a zero duration raises ZeroDivisionError  *)
(* in the mean speed first).                                               *)
IsBase == training # None /\ training.cls = "Training"

C5_BaseCaloriesNotImplemented ==
    IsBase
        => /\ info = None /\ main_info = None /\ stdout = <<>>
           /\ (pc = "get_spent_calories")
                => raised = NotImplementedError("Training")
           /\ (pc = "show_training_info")
                => raised = IF IsZero(training.duration)
                            THEN ZeroDivisionError
                            ELSE NotImplementedError("Training")
           /\ pc \notin {"main.format", "main.print", "main"}
           /\ (pc = "main.show" /\ raised # None)
                => raised = IF IsZero(training.duration)
                            THEN ZeroDivisionError
                            ELSE NotImplementedError("Training")

C5_Witness ==
    /\ IsBase
    /\ pc = "show_training_info"
    /\ ~IsZero(training.duration)
    /\ raised = NotImplementedError("Training")
    /\ info = None

(* the three lines the script prints *)
ExpectedLines ==
    << "Tip trenirovki: Swimming; Dlitel'nost': 1.000 ch.; Distantsiya: 0.994 km; Sr. skorost': 1.000 km/ch; Potracheno kkal: 336.000.",
       "Tip trenirovki: Running; Dlitel'nost': 1.000 ch.; Distantsiya: 9.750 km; Sr. skorost': 9.750 km/ch; Potracheno kkal: 797.805.",
       "Tip trenirovki: SportsWalking; Dlitel'nost': 1.000 ch.; Distantsiya: 5.850 km; Sr. skorost': 5.850 km/ch; Potracheno kkal: 349.252." >>

(* C6: the script, over its list (SWM, RUN, WLK), raises nothing and       *)
(* prints one line per package in the list's order: while package i is     *)
(* being read, shown or formatted exactly the lines of packages 1..i-1     *)
(* are on stdout, each the message of its package, and at the end all      *)
(* three are.                                                              *)
C6_ScriptPrintsOneLinePerPackage ==
    mode = "main"
        => /\ raised = None
           /\ i \in 1..(Len(packages) + 1)
           /\ stdout = SubSeq(ExpectedLines, 1, i - 1)
           /\ (pc = "exit") => stdout = ExpectedLines
           /\ (pc \in {"main.show", "main.format", "main.print"})
                => /\ i <= Len(packages)
                   /\ read_package(packages[i].workout_type,
                                   packages[i].data) = Return(training)
           /\ (pc = "main.print") => message = ExpectedLines[i]

C6_Witness ==
    /\ mode = "main"
    /\ pc = "exit"
    /\ Len(stdout) = 3
    /\ stdout[3] = ExpectedLines[3]

(* the Running object of the example *)
RunningExample ==
    training = [cls |-> "Running", action |-> Num(15000),
                duration |-> Num(1), weight |-> Num(75)]

(* x lies in the closed interval [lo, hi] of two numbers *)
Between(lo, x, hi) ==
    /\ ~IsNeg(RAdd(x, RNeg(lo)))
    /\ ~IsNeg(RAdd(hi, RNeg(x)))

(* C7 as stated: Running(15000, 1, 75) has distance 9.75, mean speed 9.75  *)
(* and calories approximately 792.0 (within half a unit of it).            *)
C7_RunningExampleAsStated ==
    RunningExample
        => /\ (pc = "get_distance") => returned = Frac(975, 100)
           /\ (pc = "get_mean_speed") => returned = Frac(975, 100)
           /\ (pc = "get_spent_calories")
                => Between(Frac(7915, 10), returned, Frac(7925, 10))

(* C7, amended: Running(15000, 1, 75) has distance 9.75, mean speed 9.75   *)
(* and calories (18.0*9.75+1.79)*75/1000*1*60 = 797.805.                   *)
C7_RunningExample ==
    RunningExample
        => /\ (pc = "get_distance") => returned = Frac(975, 100)
           /\ (pc = "get_mean_speed") => returned = Frac(975, 100)
           /\ (pc = "get_spent_calories")
                => returned = Frac(797805, 1000)
           /\ (pc = "show_training_info")
                => info = InfoMessage("Running", Num(1), Frac(975, 100),
                                      Frac(975, 100), Frac(797805, 1000))

C7_Witness ==
    /\ RunningExample
    /\ pc = "get_spent_calories"
    /\ returned = Frac(797805, 1000)

(* The closed forms of C8, written from the integer inputs.                *)
SwimSpeed(t) ==
    Frac(t.length_pool.w * t.count_pool.w, 1000 * t.duration.w)

SwimDistance(t) == Frac(t.action.w * 138, 100000)

SwimCalories(t) ==
    Frac((10 * t.length_pool.w * t.count_pool.w + 11000 * t.duration.w)
            * 2 * t.weight.w, 10000)

(* C8: for a Swimming object with duration > 0 the mean speed is           *)
(* length_pool*count_pool/1000/duration, a function of the pool fields     *)
(* and the duration alone; the distance is action*1.38/1000, a function    *)
(* of action alone; the calories are (mean speed + 1.1)*2*weight*duration  *)
(* with that mean speed.  For (720, 1, 80, 25, 40) the InfoMessage has     *)
(* speed 1, distance 0.9936 and calories 336, and its speed is not its     *)
(* distance divided by its duration.                                       *)
C8_SwimmingFormulas ==
    (training # None /\ training.cls = "Swimming"
       /\ ~IsNeg(training.duration) /\ ~IsZero(training.duration))
        => /\ (pc = "get_mean_speed") => returned = SwimSpeed(training)
           /\ (pc = "get_distance") => returned = SwimDistance(training)
           /\ (pc = "get_spent_calories")
                => returned = SwimCalories(training)
           /\ (pc = "show_training_info")
                => info = InfoMessage("Swimming", training.duration,
                                      SwimDistance(training),
                                      SwimSpeed(training),
                                      SwimCalories(training))
           /\ (mode = "main" /\ pc = "main.format")
                => /\ main_info = InfoMessage("Swimming", Num(1),
                                              Frac(9936, 10000), Num(1),
                                              Num(336))
                   /\ main_info.speed
                        # RDiv(main_info.distance, main_info.duration)

C8_Witness ==
    /\ mode = "main"
    /\ pc = "main.format"
    /\ training.cls = "Swimming"
    /\ training.action = Num(720)
    /\ main_info.speed = Num(1)
    /\ main_info.calories = Num(336)

(* the InfoMessage objects in hand *)
Summaries == {info, main_info} \ {None}

NumericFields(m) == {m.duration, m.distance, m.speed, m.calories}

(* f is x written with exactly three fraction digits: the digits are       *)
(* decimal digits, and the number they spell is a nearest multiple of      *)
(* 1/1000 to the magnitude of x.                                           *)
ThreeDecimals(x, f) ==
    LET s == RMul(RAbs(x), Num(1000))
        q == 1000 * f.whole + 100 * f.frac[1] + 10 * f.frac[2] + f.frac[3]
    IN  /\ Len(f.frac) = 3
        /\ \A k \in 1..3 : f.frac[k] \in 0..9
        /\ f.whole >= 0
        /\ f.neg = IsNeg(x)
        /\ \/ q = s.w /\ 2 * s.n <= s.d
           \/ q = s.w + 1 /\ 2 * s.n >= s.d

(* the text of a number written with three fraction digits *)
ThreeDecimalText(f) ==
    (IF f.neg THEN "-" ELSE "") \o ToString(f.whole) \o "."
        \o ToString(f.frac[1]) \o ToString(f.frac[2]) \o ToString(f.frac[3])

(* C9: get_message renders each of duration, distance, speed and calories  *)
(* of every InfoMessage with exactly three digits after the point,         *)
(* rounded, whether the value is an integer, has fewer than three          *)
(* decimals or more; the message is the fixed template around them.        *)
C9_ThreeDecimalDigits ==
    /\ \A m \in Summaries : \A x \in NumericFields(m) :
          ThreeDecimals(x, FormatFixed(x))
    /\ (pc \in {"get_message", "main.print"})
          => LET m == IF pc = "get_message" THEN info ELSE main_info
             IN  message
                   = "Tip trenirovki: " \o m.training_type
                     \o "; Dlitel'nost': "
                     \o ThreeDecimalText(FormatFixed(m.duration))
                     \o " ch.; Distantsiya: "
                     \o ThreeDecimalText(FormatFixed(m.distance))
                     \o " km; Sr. skorost': "
                     \o ThreeDecimalText(FormatFixed(m.speed))
                     \o " km/ch; Potracheno kkal: "
                     \o ThreeDecimalText(FormatFixed(m.calories))
                     \o "."

(* a message was made of an InfoMessage whose duration is an integer,      *)
(* whose distance has two decimals and whose calories have more than three *)
C9_Witness ==
    /\ mode = "import"
    /\ pc = "get_message"
    /\ info # None
    /\ info.duration.n = 0
    /\ RMul(info.distance, Num(100)).n = 0 /\ info.distance.n # 0
    /\ RMul(info.calories, Num(1000)).n # 0

(* some argument of the list is negative, none is zero *)
SomeNegative(args) == \E k \in 1..Len(args) : IsNeg(args[k])

NoneZero(args) == \A k \in 1..Len(args) : ~IsZero(args[k])

HasNegativeValue(m) == \E x \in NumericFields(m) : IsNeg(x)

(* the division by zero of show_training_info on the object in hand *)
DividesByZero ==
    \/ IsZero(training.duration)
    \/ training.cls = "SportsWalking" /\ IsZero(training.height)

(* C10, the part on zero inputs: read_package has made the object, and     *)
(* show_training_info, called directly or by main, raises                  *)
(* ZeroDivisionError, so that no InfoMessage is returned and no line       *)
(* printed.                                                                *)
ZeroInputsRaise ==
    (FromPackage /\ DividesByZero)
        => /\ info = None /\ main_info = None /\ stdout = <<>>
           /\ (pc = "show_training_info") => raised = ZeroDivisionError
           /\ (pc = "main.show" /\ raised # None)
                => raised = ZeroDivisionError
           /\ pc \notin {"main.format", "main.print", "main"}

(* C10 as stated: the zero part, and for negative inputs no error and an   *)
(* InfoMessage with negative values.                                       *)
C10_UnvalidatedAsStated ==
    /\ ZeroInputsRaise
    /\ (FromPackage /\ SomeNegative(data) /\ NoneZero(data)
          /\ pc = "show_training_info")
        => /\ raised = None
           /\ info # None
           /\ HasNegativeValue(info)

(* C10, amended: the zero part, and with no zero duration or height        *)
(* show_training_info raises nothing whatever the signs of the inputs and  *)
(* returns an InfoMessage, which has a negative value whenever action or   *)
(* duration is negative (not whenever any input is).                       *)
C10_Unvalidated ==
    /\ ZeroInputsRaise
    /\ (FromPackage /\ ~DividesByZero /\ pc = "show_training_info")
        => /\ raised = None
           /\ info # None
           /\ IsNeg(training.action) => IsNeg(info.distance)
           /\ IsNeg(training.duration) => IsNeg(info.duration)

(* main was called on a SportsWalking object of height 0 and raised *)
C10_Witness ==
    /\ FromPackage
    /\ training.cls = "SportsWalking"
    /\ IsZero(training.height)
    /\ ~IsZero(training.duration)
    /\ pc = "main.show"
    /\ raised = ZeroDivisionError
    /\ stdout = <<>>

(* show_training_info returned an InfoMessage for negative inputs *)
C10_WitnessNegative ==
    /\ FromPackage
    /\ pc = "show_training_info"
    /\ IsNeg(training.action) /\ IsNeg(training.duration)
    /\ info # None
    /\ IsNeg(info.distance)

====
